---- MODULE Spec2Model ----
(***************************************************************************)
(* Model of bzt/resources/selenium_extras.py: the helper classes the       *)
(* generated Selenium tests call (FrameManager, WindowManager, Manager,    *)
(* WaitForManager, DialogsManager) together with the part of the WebDriver *)
(* they drive (window handles, frames, the page's elements, the page's     *)
(* JavaScript dialog state).                                               *)
(*                                                                         *)
(* Python strings that the code inspects (isdigit, startswith, split,      *)
(* lower, replace) are sequences of one-character strings, so that these   *)
(* operations are computed and not looked up.                              *)
(***************************************************************************)
EXTENDS Integers, Sequences, FiniteSets, TLC

VARIABLES
    handles,      \* driver.window_handles: the open windows, oldest first
    current,      \* the driver's current window handle (may be a closed one)
    created,      \* number of windows opened so far (names the next handle)
    frame,        \* the driver's current frame context: path of frame names from the top
    windows,      \* WindowManager.windows: symbolic name -> window handle
    last,         \* the last helper call: operation, argument, state before it, outcome
    page,         \* the page content: state of every element a locator can name
    store,        \* the thread store's "timeout" entry
    implicit,     \* the driver's implicit wait, as last set by implicitly_wait
    clock,        \* time.time()
    wait,         \* the running WaitForManager.wait_for call, or the idle record
    is_active,    \* DialogsManager.is_active
    js,           \* the page's JavaScript state used by DialogsManager
    hist          \* history of the dialog traffic of the current page load

vars == <<handles, current, created, frame, windows, last, page, store, implicit, clock, wait, is_active, js, hist>>

driverVars == <<handles, current, created, frame, windows>>
pageVars   == <<page, store, implicit, clock, wait>>
dialogVars == <<is_active, js, hist>>

----------------------------------------------------------------------------
(* Bounds of the model *)

MaxWindows == 3     \* windows opened during a run
MaxLocators == 2    \* length of a locator list
MaxClock == 4       \* time.time() is followed up to this value
MaxDialogs == 3     \* dialog calls of the page within one page load

\* _get_timeout: the timeout used when the thread store holds none
DefaultTimeout == 30

----------------------------------------------------------------------------
(* Python strings and lists *)

Digits == <<"0", "1", "2", "3", "4", "5", "6", "7", "8", "9">>

IsDigitChar(c) == \E i \in 1..Len(Digits) : Digits[i] = c

DigitValue(c) == (CHOOSE i \in 1..Len(Digits) : Digits[i] = c) - 1

\* str.isdigit(): non-empty and every character a digit
isdigit(s) == Len(s) > 0 /\ \A i \in 1..Len(s) : IsDigitChar(s[i])

RECURSIVE DecimalValue(_)
DecimalValue(s) ==
    IF s = <<>> THEN 0
    ELSE 10 * DecimalValue(SubSeq(s, 1, Len(s) - 1)) + DigitValue(s[Len(s)])

\* int(s): the value, or ValueError for what is not a decimal literal
int(s) ==
    IF isdigit(s) THEN [err |-> "none", val |-> DecimalValue(s)]
    ELSE IF Len(s) > 1 /\ s[1] = "-" /\ isdigit(Tail(s))
        THEN [err |-> "none", val |-> 0 - DecimalValue(Tail(s))]
    ELSE [err |-> "ValueError", val |-> 0]

startswith(s, prefix) ==
    Len(s) >= Len(prefix) /\ SubSeq(s, 1, Len(prefix)) = prefix

UpperCase == <<"A", "B", "C", "D", "E", "F", "G", "H", "I", "J", "K", "L", "M",
               "N", "O", "P", "Q", "R", "S", "T", "U", "V", "W", "X", "Y", "Z">>
LowerCase == <<"a", "b", "c", "d", "e", "f", "g", "h", "i", "j", "k", "l", "m",
               "n", "o", "p", "q", "r", "s", "t", "u", "v", "w", "x", "y", "z">>

LowerChar(c) ==
    IF \E i \in 1..Len(UpperCase) : UpperCase[i] = c
        THEN LowerCase[CHOOSE i \in 1..Len(UpperCase) : UpperCase[i] = c]
        ELSE c

\* str.lower()
lower(s) == [i \in 1..Len(s) |-> LowerChar(s[i])]

\* Positions of the separator in s
SepPositions(s, sep) == {i \in 1..Len(s) : s[i] = sep}

\* s.split(sep)[1]: the field after the first separator, or IndexError
SplitSecond(s, sep) ==
    LET pos == SepPositions(s, sep) IN
    IF pos = {} THEN [err |-> "IndexError", val |-> <<>>]
    ELSE LET first == CHOOSE i \in pos : \A j \in pos : i <= j
             rest  == {j \in pos : j > first}
             stop  == IF rest = {} THEN Len(s) + 1
                      ELSE CHOOSE i \in rest : \A j \in rest : i <= j
         IN [err |-> "none", val |-> SubSeq(s, first + 1, stop - 1)]

\* list[i] of Python: negative indices count from the end, IndexError outside
PyIndex(list, i) ==
    IF i >= 0 /\ i < Len(list) THEN [err |-> "none", val |-> list[i + 1]]
    ELSE IF i < 0 /\ 0 - i <= Len(list) THEN [err |-> "none", val |-> list[Len(list) + i + 1]]
    ELSE [err |-> "IndexError", val |-> <<>>]

\* list without its element e
Without(list, e) == SelectSeq(list, LAMBDA x : x # e)

InSeq(list, e) == \E i \in 1..Len(list) : list[i] = e

----------------------------------------------------------------------------
(* The strings the helpers are called with *)

win_ser_prefix == <<"w", "i", "n", "_", "s", "e", "r", "_">>
win_ser_local  == win_ser_prefix \o <<"l", "o", "c", "a", "l">>
win_ser_a      == win_ser_prefix \o <<"a">>
win_ser_b      == win_ser_prefix \o <<"b">>

\* The handle the driver gives to the n-th window opened
Handle(n) == <<"h", Digits[n + 1]>>

\* Window names a test passes: None (the empty sequence: both are falsy), window
\* positions, the sequential names, the handle of the second window
WindowNames ==
    { <<>>, <<"0">>, <<"1">>, <<"3">>, win_ser_local, win_ser_a, win_ser_b,
      Handle(2) }

relative_top    == <<"r", "e", "l", "a", "t", "i", "v", "e", "=", "t", "o", "p">>
relative_parent == <<"r", "e", "l", "a", "t", "i", "v", "e", "=", "p", "a", "r", "e", "n", "t">>
index_prefix    == <<"i", "n", "d", "e", "x", "=">>

\* Frame names a test passes
FrameNames ==
    { <<>>, relative_top, relative_parent, index_prefix \o <<"0">>,
      index_prefix \o <<"7">>, index_prefix \o <<"x">>,
      <<"f", "1">>, <<"g", "1">>, <<"n", "o", "p", "e">> }

\* The frames of every window's page: two frames at the top, one nested in the first
Children(path) ==
    IF path = <<>> THEN << <<"f", "1">>, <<"f", "2">> >>
    ELSE IF path = << <<"f", "1">> >> THEN << <<"g", "1">> >>
    ELSE <<>>

----------------------------------------------------------------------------
(* The WebDriver: windows and frames.  A driver state is the record         *)
(* [handles, current, frame]; a command returns [err, st].                  *)

Driver == [handles |-> handles, current |-> current, frame |-> frame]

Ok(st) == [err |-> "none", st |-> st]
Raise(e, st) == [err |-> e, st |-> st]

\* Every command addressed to the current window fails once it was closed
WindowGone(st) == ~InSeq(st.handles, st.current)

\* driver.switch_to.window(h): h is a handle of an open window, or no such window
switch_to_window(st, h) ==
    IF InSeq(st.handles, h)
        THEN Ok([st EXCEPT !.current = h, !.frame = <<>>])
        ELSE Raise("NoSuchWindowException", st)

\* driver.close(): closes the current window; the driver keeps the stale handle
driver_close(st) ==
    IF WindowGone(st) THEN Raise("NoSuchWindowException", st)
    ELSE Ok([st EXCEPT !.handles = Without(st.handles, st.current)])

switch_to_default_content(st) ==
    IF WindowGone(st) THEN Raise("NoSuchWindowException", st)
    ELSE Ok([st EXCEPT !.frame = <<>>])

switch_to_parent_frame(st) ==
    IF WindowGone(st) THEN Raise("NoSuchWindowException", st)
    ELSE Ok([st EXCEPT !.frame = IF st.frame = <<>> THEN <<>>
                                 ELSE SubSeq(st.frame, 1, Len(st.frame) - 1)])

\* driver.switch_to.frame(i) for an integer i: the i-th child frame
switch_to_frame_index(st, i) ==
    IF WindowGone(st) THEN Raise("NoSuchWindowException", st)
    ELSE IF i >= 0 /\ i < Len(Children(st.frame))
        THEN Ok([st EXCEPT !.frame = Append(st.frame, Children(st.frame)[i + 1])])
    ELSE Raise("NoSuchFrameException", st)

\* driver.switch_to.frame(name) for a string: the child frame of that id or name
switch_to_frame_name(st, name) ==
    IF WindowGone(st) THEN Raise("NoSuchWindowException", st)
    ELSE IF InSeq(Children(st.frame), name)
        THEN Ok([st EXCEPT !.frame = Append(st.frame, name)])
    ELSE Raise("NoSuchFrameException", st)

----------------------------------------------------------------------------
(* FrameManager *)

\* FrameManager.switch: the outcome [err, msg, st]
FrameManager_switch(st, frame_name) ==
    LET r ==
            IF frame_name = <<>> \/ frame_name = relative_top
                THEN switch_to_default_content(st)
            ELSE IF startswith(frame_name, index_prefix)
                THEN LET field == SplitSecond(frame_name, "=")
                         n == int(field.val)
                     IN IF field.err # "none" THEN Raise(field.err, st)
                        ELSE IF n.err # "none" THEN Raise(n.err, st)
                        ELSE switch_to_frame_index(st, n.val)
            ELSE IF frame_name = relative_parent
                THEN switch_to_parent_frame(st)
            ELSE switch_to_frame_name(st, frame_name)
    IN  IF r.err = "NoSuchFrameException"
            THEN [err |-> r.err, msg |-> "Invalid Frame ID", st |-> r.st]
            ELSE [err |-> r.err, msg |-> "", st |-> r.st]

----------------------------------------------------------------------------
(* WindowManager.  A method returns [err, msg, st, wins, target]: the error *)
(* raised ("none" for a normal return) and its message, the driver state    *)
(* and self.windows after the call, and the handles the call passed to      *)
(* driver.switch_to.window.                                                 *)

Outcome(r, wins, target) ==
    [err |-> r.err, msg |-> "", st |-> r.st, wins |-> wins, target |-> target]

\* WindowManager._switch_by_idx
_switch_by_idx(st, wins, win_index) ==
    LET wnd_handlers == st.handles IN
    IF Len(wnd_handlers) <= win_index /\ win_index >= 0
        THEN LET h == PyIndex(wnd_handlers, win_index) IN
             IF h.err # "none" THEN Outcome(Raise(h.err, st), wins, <<>>)
             ELSE Outcome(switch_to_window(st, h.val), wins, <<h.val>>)
        ELSE Outcome(Raise("NoSuchWindowException", st), wins, <<>>)

\* _switch_by_win_ser binding the name anew at every use
_switch_by_win_ser_rebinding(st, wins, window_name) ==
    IF window_name = win_ser_local
        THEN LET wnd_handlers == st.handles IN
             IF Len(wnd_handlers) > 0
                 THEN Outcome(switch_to_window(st, wnd_handlers[1]), wins, <<wnd_handlers[1]>>)
                 ELSE Outcome(Raise("NoSuchWindowException", st), wins, <<>>)
        ELSE LET h == PyIndex(st.handles, -1) IN
             IF h.err # "none" THEN Outcome(Raise(h.err, st), wins, <<>>)
             ELSE Outcome(switch_to_window(st, h.val),
                          (window_name :> h.val) @@ wins, <<h.val>>)

\* WindowManager._switch_by_win_ser
_switch_by_win_ser(st, wins, window_name) ==
    IF window_name = win_ser_local
        THEN LET wnd_handlers == st.handles IN
             IF Len(wnd_handlers) > 0
                 THEN Outcome(switch_to_window(st, wnd_handlers[1]), wins, <<wnd_handlers[1]>>)
                 ELSE Outcome(Raise("NoSuchWindowException", st), wins, <<>>)
        ELSE IF window_name \notin DOMAIN wins
            THEN LET h == PyIndex(st.handles, -1) IN
                 IF h.err # "none" THEN Outcome(Raise(h.err, st), wins, <<>>)
                 ELSE Outcome(switch_to_window(st, h.val),
                              wins @@ (window_name :> h.val), <<h.val>>)
            ELSE Outcome(switch_to_window(st, wins[window_name]), wins,
                         <<wins[window_name]>>)

\* WindowManager.switch
WindowManager_switch(st, wins, window_name) ==
    LET r ==
            IF window_name = <<>>
                THEN LET h == PyIndex(st.handles, -1) IN
                     IF h.err # "none" THEN Outcome(Raise(h.err, st), wins, <<>>)
                     ELSE Outcome(switch_to_window(st, h.val), wins, <<h.val>>)
            ELSE IF isdigit(window_name)
                THEN _switch_by_idx(st, wins, int(window_name).val)
            ELSE IF startswith(window_name, win_ser_prefix)
                THEN _switch_by_win_ser(st, wins, window_name)
            ELSE Outcome(switch_to_window(st, window_name), wins, <<window_name>>)
    IN  IF r.err = "NoSuchWindowException"
            THEN [r EXCEPT !.msg = "Invalid Window ID"]
            ELSE r

\* WindowManager.close
WindowManager_close(st, wins, window_name) ==
    LET s == IF window_name # <<>>
                 THEN WindowManager_switch(st, wins, window_name)
                 ELSE Outcome(Ok(st), wins, <<>>)
    IN  IF s.err # "none" THEN s
        ELSE LET c == driver_close(s.st) IN
             [err |-> c.err, msg |-> "", st |-> c.st, wins |-> s.wins, target |-> s.target]

----------------------------------------------------------------------------
(* Manager: locators and the page *)

xpath    == <<"x", "p", "a", "t", "h">>
css      == <<"c", "s", "s">>
name     == <<"n", "a", "m", "e">>
id       == <<"i", "d">>
linktext == <<"l", "i", "n", "k", "t", "e", "x", "t">>

\* Manager.BYS: the strategy names and the selenium By constants they stand for
BYS == (xpath :> "xpath") @@ (css :> "css selector") @@ (name :> "name")
       @@ (id :> "id") @@ (linktext :> "link text")

\* The locators of the tests: dictionaries of one entry, strategy name -> value,
\* the strategy a key of BYS in any letter case (the documented parameter)
Locators ==
    { [type |-> <<"I", "D">>, value |-> "a"], [type |-> css, value |-> "b"] }

\* The lists of locators of at most n entries
RECURSIVE ListsUpTo(_)
ListsUpTo(n) ==
    IF n = 0 THEN { <<>> }
    ELSE LET shorter == ListsUpTo(n - 1) IN
         shorter \cup { Append(l, x) : l \in {m \in shorter : Len(m) = n - 1}, x \in Locators }

LocatorLists == ListsUpTo(MaxLocators)

\* What find_elements and the expected conditions can look up: (By, value)
Keys == { <<BYS[lower(l.type)], l.value>> : l \in Locators }

\* An element is absent, in the DOM but not displayed, displayed but disabled,
\* or displayed and enabled
ElementStates == {"absent", "hidden", "visible", "clickable"}

Pages == [Keys -> ElementStates]

\* driver.find_elements(by, value) on the page: whether the list is non-empty
find_elements(pg, by, value) == pg[<<by, value>>] # "absent"

\* _get_timeout
\* (the store's entry is <<>> for None and <<t>> for the number t)
_get_timeout(st) ==
    LET truthy == st # <<>> /\ st[1] # 0
        zero   == st # <<>> /\ st[1] = 0
    IN  IF ~(truthy \/ zero) THEN DefaultTimeout ELSE st[1]

\* The loop of Manager.get_locator from its i-th locator on: first is
\* first_locator (<<>> for None), imp the implicit wait, asked the (By, value)
\* pairs passed to find_elements so far.  Returns [err, val, implicit, asked].
RECURSIVE get_locator_loop(_, _, _, _, _, _, _)
get_locator_loop(pg, timeout, locators, i, first, imp, asked) ==
    IF i > Len(locators)
        THEN \* the else clause of the for loop
             IF first = <<>>
                 THEN [err |-> "TypeError", val |-> <<>>, implicit |-> timeout, asked |-> asked]
                 ELSE [err |-> "NoSuchElementException", val |-> <<>>,
                       implicit |-> timeout, asked |-> asked]
        ELSE LET locator_type == locators[i].type
                 locator_value == locators[i].value
                 known == lower(locator_type) \in DOMAIN BYS
                 imp2 == IF first = <<>> THEN imp ELSE 0
             IN  IF ~known
                     THEN [err |-> "KeyError", val |-> <<>>, implicit |-> imp2, asked |-> asked]
                 ELSE LET by == BYS[lower(locator_type)]
                          first2 == IF first = <<>> THEN <<by, locator_value>> ELSE first
                          asked2 == Append(asked, <<by, locator_value>>)
                      IN  IF find_elements(pg, by, locator_value)
                              THEN [err |-> "none", val |-> <<by, locator_value>>,
                                    implicit |-> timeout, asked |-> asked2]
                              ELSE get_locator_loop(pg, timeout, locators, i + 1,
                                                    first2, imp2, asked2)

\* get_locator without the break: the loop goes on to the last match
RECURSIVE last_match_loop(_, _, _, _)
last_match_loop(pg, locators, i, found) ==
    IF i > Len(locators) THEN found
    ELSE LET by == BYS[lower(locators[i].type)] IN
         last_match_loop(pg, locators, i + 1,
                         IF find_elements(pg, by, locators[i].value)
                             THEN <<by, locators[i].value>> ELSE found)

get_locator_last_match(pg, st, imp, locators, ignore_implicit_wait) ==
    LET found == last_match_loop(pg, locators, 1, <<>>)
        asked == [i \in 1..Len(locators) |->
                     <<BYS[lower(locators[i].type)], locators[i].value>>]
    IN  [err |-> IF found = <<>> THEN "NoSuchElementException" ELSE "none",
         val |-> found, implicit |-> _get_timeout(st), asked |-> asked]

\* Manager.get_locator(locators, ignore_implicit_wait)
get_locator(pg, st, imp, locators, ignore_implicit_wait) ==
    get_locator_loop(pg, _get_timeout(st), locators, 1, <<>>,
                     IF ignore_implicit_wait THEN 0 ELSE imp, <<>>)

----------------------------------------------------------------------------
(* WaitForManager *)

present      == <<"p", "r", "e", "s", "e", "n", "t">>
visible      == <<"v", "i", "s", "i", "b", "l", "e">>
clickable    == <<"c", "l", "i", "c", "k", "a", "b", "l", "e">>
notpresent   == <<"n", "o", "t", "p", "r", "e", "s", "e", "n", "t">>
notvisible   == <<"n", "o", "t", "v", "i", "s", "i", "b", "l", "e">>
notclickable == <<"n", "o", "t", "c", "l", "i", "c", "k", "a", "b", "l", "e">>

POSITIVE_CONDS == <<present, visible, clickable>>
NEGATIVE_CONDS == <<notpresent, notvisible, notclickable>>

\* Conditions a test passes, in the letter case it likes, and one that is none
Conditions ==
    { present, <<"V", "i", "s", "i", "b", "l", "e">>, clickable, notpresent, <<"N", "o", "t", "V", "i", "s", "i", "b", "l", "e">>, notclickable, <<"e", "n", "a", "b", "l", "e", "d">> }

\* wait_timeout values a test passes, in units of WebDriverWait's poll interval
WaitTimeouts == { 0, 1 }

\* sub in s, for Python strings
Contains(s, sub) ==
    \E i \in 1..(Len(s) - Len(sub) + 1) : SubSeq(s, i, i + Len(sub) - 1) = sub

\* _get_until_cond taking every condition for one on visibility
_get_until_cond_visibility(condition, locator) ==
    [econd |-> "visibility_of_element_located", loc |-> locator]

\* WaitForManager._get_until_cond: the expected condition built for the locator
_get_until_cond(condition, locator) ==
    IF Contains(condition, clickable)
        THEN [econd |-> "element_to_be_clickable", loc |-> locator]
    ELSE IF Contains(condition, present)
        THEN [econd |-> "presence_of_element_located", loc |-> locator]
    ELSE IF Contains(condition, visible)
        THEN [econd |-> "visibility_of_element_located", loc |-> locator]
    ELSE [econd |-> "None", loc |-> locator]

\* One evaluation of an expected condition on the page: "element" (truthy),
\* "False", or the NoSuchElementException of find_element
Evaluate(pg, cond) ==
    LET e == pg[cond.loc] IN
    IF e = "absent" THEN "NoSuchElementException"
    ELSE IF cond.econd = "presence_of_element_located" THEN "element"
    ELSE IF cond.econd = "visibility_of_element_located"
        THEN IF e \in {"visible", "clickable"} THEN "element" ELSE "False"
    ELSE IF e = "clickable" THEN "element" ELSE "False"

\* The first loop of _wait_for_negative from the i-th locator on: the locators
\* get_locator finds when asked one by one.  Returns [err, locs].
RECURSIVE present_locs_from(_, _, _, _)
present_locs_from(pg, st, locators, i) ==
    IF i > Len(locators) THEN [err |-> "none", locs |-> <<>>]
    ELSE LET r == get_locator(pg, st, 0, <<locators[i]>>, TRUE)
             rest == present_locs_from(pg, st, locators, i + 1)
         IN  IF r.err = "none" THEN [rest EXCEPT !.locs = <<r.val>> \o @]
             ELSE IF r.err = "NoSuchElementException" THEN rest
             ELSE [err |-> r.err, locs |-> <<>>]

----------------------------------------------------------------------------
(* DialogsManager and the page's JavaScript.  js holds the window.__webdriver* *)
(* variables: defined says whether the three queues exist; a JavaScript value  *)
(* is [kind, text] with kind "undefined", "null", "true", "false" or "string". *)

Undefined == [kind |-> "undefined", text |-> <<>>]
Null      == [kind |-> "null", text |-> <<>>]
True      == [kind |-> "true", text |-> <<>>]
False     == [kind |-> "false", text |-> <<>>]
String(t) == [kind |-> "string", text |-> t]

\* The state of a freshly loaded page
FreshPage ==
    [defined |-> FALSE, alerts |-> <<>>, confirms |-> <<>>, prompts |-> <<>>,
     nextConfirm |-> Undefined, nextPrompt |-> Undefined, nextPrompts |-> Undefined]

\* Messages the page shows: one line, two lines, empty
line  == <<"a">>
lines == <<"a", "\n", "b">>
AlertMessages   == { line, lines }
ConfirmMessages == { line }
PromptMessages  == { line, <<>> }
default         == <<"d">>

\* Values the test passes to set_next_confirm_state and answer_on_next_prompt
ok     == <<"#", "o", "k">>
cancel == <<"#", "c", "a", "n", "c", "e", "l">>
ConfirmValues == { ok, <<"#", "O", "k">>, cancel, <<"y", "e", "s">> }
PromptValues  == { cancel, <<"#", "C", "a", "n", "c", "e", "l">>, <<"x">> }

\* t.replace(/\n/g, ' ')
replace_newlines(t) == [i \in 1..Len(t) |-> IF t[i] = "\n" THEN " " ELSE t[i]]

\* The script without its guard: every call starts the queues anew
replace_script_unguarded(w) ==
    [w EXCEPT !.defined = TRUE, !.alerts = <<>>, !.confirms = <<>>,
              !.prompts = <<>>, !.nextConfirm = True, !.nextPrompts = True]

\* The script of replace_dialogs
replace_script(w) ==
    IF w.defined THEN w
    ELSE [w EXCEPT !.defined = TRUE, !.alerts = <<>>, !.confirms = <<>>,
                   !.prompts = <<>>, !.nextConfirm = True, !.nextPrompts = True]

\* DialogsManager.replace_dialogs
replace_dialogs(active, w) == IF ~active THEN w ELSE replace_script(w)

\* The replacement of window.alert: [w, res]
alert(w, msg) == [w |-> [w EXCEPT !.alerts = Append(@, msg)], res |-> Undefined]

\* window.confirm keeping the configured answer for the following confirms
confirm_sticky(w, msg) ==
    [w |-> [w EXCEPT !.confirms = Append(@, msg)], res |-> w.nextConfirm]

\* The replacement of window.confirm
confirm(w, msg) ==
    [w |-> [w EXCEPT !.confirms = Append(@, msg), !.nextConfirm = True],
     res |-> w.nextConfirm]

\* The replacement of window.prompt: msg || def is queued
prompt(w, msg, def) ==
    [w |-> [w EXCEPT !.prompts = Append(@, IF msg # <<>> THEN msg ELSE def),
                     !.nextPrompt = True],
     res |-> w.nextPrompt]

\* Array.shift(): [queue, res], undefined from an empty array
shift(queue) ==
    IF queue = <<>> THEN [queue |-> <<>>, res |-> Undefined]
    ELSE [queue |-> Tail(queue), res |-> String(Head(queue))]

\* DialogsManager.get_next_confirm: [w, res]
get_next_confirm(w) ==
    IF ~w.defined THEN [w |-> w, res |-> Null]
    ELSE [w |-> [w EXCEPT !.confirms = shift(@).queue], res |-> shift(w.confirms).res]

\* DialogsManager.get_next_alert
get_next_alert(w) ==
    IF ~w.defined THEN [w |-> w, res |-> Null]
    ELSE LET t == shift(w.alerts).res IN
         [w |-> [w EXCEPT !.alerts = shift(@).queue],
          res |-> IF t.kind = "string" /\ t.text # <<>>
                      THEN String(replace_newlines(t.text)) ELSE t]

\* DialogsManager.get_next_prompt
get_next_prompt(w) ==
    IF ~w.defined THEN [w |-> w, res |-> Null]
    ELSE [w |-> [w EXCEPT !.prompts = shift(@).queue], res |-> shift(w.prompts).res]

\* DialogsManager.answer_on_next_prompt
answer_on_next_prompt(w, value) ==
    IF lower(value) = cancel THEN [w EXCEPT !.nextPrompt = Null]
    ELSE [w EXCEPT !.nextPrompt = String(value)]

\* DialogsManager.set_next_confirm_state
set_next_confirm_state(w, value) ==
    LET confirm_text == IF lower(value) = ok THEN True ELSE False
    IN  [w EXCEPT !.nextConfirm = confirm_text]

----------------------------------------------------------------------------
(* Initial state *)

Idle == [op |-> "none", arg |-> <<>>, err |-> "none", msg |-> "",
         pre |-> <<>>, target |-> <<>>]

InitDriver ==
    /\ handles = <<Handle(1)>>
    /\ current = Handle(1)
    /\ created = 1
    /\ frame = <<>>
    /\ windows = <<>>
    /\ last = Idle

\* Timeouts a test configures in the thread store: none, zero, five seconds
StoreTimeouts == { <<>>, <<0>>, <<5>> }

IdleWait == [pc |-> "idle"]

NoPage == [k \in Keys |-> "absent"]

QuietDriver ==
    /\ handles = <<Handle(1)>>
    /\ current = Handle(1)
    /\ created = 1
    /\ frame = <<>>
    /\ windows = <<>>

QuietPage ==
    /\ page = NoPage
    /\ store = <<>>
    /\ implicit = DefaultTimeout
    /\ clock = 0
    /\ wait = IdleWait

InitLocators ==
    /\ page \in Pages
    /\ store \in StoreTimeouts
    /\ implicit = _get_timeout(store)
    /\ clock = 0
    /\ wait = IdleWait
    /\ last = Idle

----------------------------------------------------------------------------
(* Actions of the test on windows and frames *)

\* The page under test opens a window (window.open, a link with a target)
OpenWindow ==
    /\ created < MaxWindows
    /\ created' = created + 1
    /\ handles' = Append(handles, Handle(created + 1))
    /\ last' = [Idle EXCEPT !.op = "open", !.pre = handles]
    /\ UNCHANGED <<current, frame, windows>>

Call(op, arg, r) ==
    /\ handles' = r.st.handles
    /\ current' = r.st.current
    /\ frame' = r.st.frame
    /\ last' = [op |-> op, arg |-> arg, err |-> r.err, msg |-> r.msg,
                pre |-> handles, target |-> r.target]
    /\ UNCHANGED created

Switch ==
    \E window_name \in WindowNames :
        LET r == WindowManager_switch(Driver, windows, window_name) IN
        /\ Call("switch", window_name, r)
        /\ windows' = r.wins

Close ==
    \E window_name \in WindowNames :
        LET r == WindowManager_close(Driver, windows, window_name) IN
        /\ Call("close", window_name, r)
        /\ windows' = r.wins

SwitchFrame ==
    \E frame_name \in FrameNames :
        LET r == FrameManager_switch(Driver, frame_name) IN
        /\ Call("frame", frame_name, [r EXCEPT !.st = r.st] @@ [target |-> <<>>])
        /\ UNCHANGED windows

----------------------------------------------------------------------------
(* Actions on the page and its locators *)

\* The page under test changes the state of one element
ElementChange ==
    \E k \in Keys, e \in ElementStates :
        /\ page[k] # e
        /\ page' = [page EXCEPT ![k] = e]

\* ... between two calls of get_locator
PageChange ==
    /\ ElementChange
    /\ last' = [Idle EXCEPT !.op = "page"]
    /\ UNCHANGED <<store, implicit, clock, wait>>

GetLocator ==
    \E locators \in LocatorLists, ignore_implicit_wait \in BOOLEAN :
        LET r == get_locator(page, store, implicit, locators, ignore_implicit_wait) IN
        /\ implicit' = r.implicit
        /\ last' = [op |-> "get_locator", locators |-> locators,
                    err |-> r.err, val |-> r.val, asked |-> r.asked]
        /\ UNCHANGED <<page, store, clock, wait>>

----------------------------------------------------------------------------
(* WaitForManager.wait_for, step by step.  wait holds the call: its          *)
(* arguments, the locals of _wait_for_positive / _wait_for_negative and of    *)
(* the WebDriverWait in progress, the outcome, and what the call observed:    *)
(* matched (for a negative condition: per locator, whether the page had its   *)
(* element when the call began), seen (the element states on which the call   *)
(* let a locator go) and held (the element state of the last poll that kept   *)
(* it waiting).                                                               *)

InitWait ==
    /\ page \in Pages
    /\ store \in {<<>>}
    /\ implicit = _get_timeout(store)
    /\ clock \in {0, 1}
    /\ wait = IdleWait
    /\ last = Idle

Running == wait.pc \notin {"idle", "done"}

Finish(w, err, msg) == [w EXCEPT !.pc = "done", !.err = err, !.msg = msg]

\* The budget of the WebDriverWait for the next locator of _wait_for_negative
NegativeEnd(w, now) ==
    LET elapsed_time == now - w.start_time
        timeout == w.wait_timeout - elapsed_time
    IN  now + timeout

\* wait_for is called: the dispatch, and the first loop of _wait_for_negative
WaitFor ==
    \E condition \in Conditions, locators \in LocatorLists, wait_timeout \in WaitTimeouts :
        LET call == [pc |-> "done", kind |-> "none", condition |-> lower(condition),
                     locators |-> locators, wait_timeout |-> wait_timeout,
                     called |-> clock, start_time |-> clock, locator |-> <<>>,
                     end_time |-> 0, present_locs |-> <<>>, idx |-> 0,
                     err |-> "none", msg |-> "", seen |-> <<>>, held |-> "none",
                     matched |-> <<>>]
            at_call == [i \in 1..Len(locators) |->
                           page[<<BYS[lower(locators[i].type)], locators[i].value>>]
                               # "absent"]
        IN
        /\ wait.pc = "idle"
        /\ IF InSeq(POSITIVE_CONDS, lower(condition))
               THEN /\ wait' = [call EXCEPT !.pc = "locate", !.kind = "positive"]
                    /\ UNCHANGED implicit
           ELSE IF InSeq(NEGATIVE_CONDS, lower(condition))
               THEN LET found == present_locs_from(page, store, locators, 1)
                        neg == [call EXCEPT !.kind = "negative", !.matched = at_call,
                                            !.present_locs = found.locs]
                    IN  /\ implicit' = IF locators = <<>> THEN implicit
                                       ELSE _get_timeout(store)
                        /\ wait' = IF found.err # "none" THEN Finish(neg, found.err, "")
                                   ELSE IF found.locs = <<>> THEN neg
                                   ELSE [neg EXCEPT !.pc = "until_not", !.idx = 1,
                                                    !.end_time = NegativeEnd(neg, clock)]
           ELSE /\ wait' = call
                /\ UNCHANGED implicit
        /\ UNCHANGED <<page, store, clock, last>>

\* The check that ends an iteration of the loop of _wait_for_positive
ElapsedCheck(w, now) ==
    LET elapsed_time == now - w.start_time IN
    IF elapsed_time > w.wait_timeout
        THEN Finish(w, "NoSuchElementException", "Timeout occurred while waiting")
        ELSE [w EXCEPT !.pc = "locate", !.locator = <<>>]

\* _wait_for_positive: an iteration starts, get_locator is asked
Locate ==
    /\ wait.pc = "locate"
    /\ LET r == get_locator(page, store, implicit, wait.locators, TRUE) IN
       /\ implicit' = r.implicit
       /\ wait' = IF r.err = "none"
                      THEN [wait EXCEPT !.pc = "until", !.locator = r.val,
                                        !.end_time = clock + wait.wait_timeout]
                  ELSE IF r.err = "NoSuchElementException"
                      THEN ElapsedCheck(wait, clock)
                  ELSE Finish(wait, r.err, "")
    /\ UNCHANGED <<page, store, clock, last>>

\* WebDriverWait.until: one evaluation of the condition
Until ==
    /\ wait.pc = "until"
    /\ LET value == Evaluate(page, _get_until_cond(wait.condition, wait.locator)) IN
       wait' = IF value = "element"
                   THEN [Finish(wait, "none", "") EXCEPT !.seen = <<page[wait.locator]>>]
                   ELSE [wait EXCEPT !.pc = "until_sleep"]
    /\ UNCHANGED <<page, store, implicit, clock, last>>

\* WebDriverWait.until: the sleep of one poll interval, then the budget check;
\* the TimeoutException is caught and the iteration ends
UntilSleep ==
    /\ wait.pc = "until_sleep"
    /\ clock < MaxClock
    /\ clock' = clock + 1
    /\ wait' = IF clock' > wait.end_time THEN ElapsedCheck(wait, clock')
               ELSE [wait EXCEPT !.pc = "until"]
    /\ UNCHANGED <<page, store, implicit, last>>

\* WebDriverWait.until_not for the idx-th of present_locs: one evaluation
UntilNot ==
    /\ wait.pc = "until_not"
    /\ LET locator == wait.present_locs[wait.idx]
           value == Evaluate(page, _get_until_cond(wait.condition, locator))
           let_go == [wait EXCEPT !.seen = Append(@, page[locator])]
       IN  wait' = IF value # "element"
                       THEN IF wait.idx = Len(wait.present_locs)
                                THEN Finish(let_go, "none", "")
                                ELSE [let_go EXCEPT !.idx = @ + 1,
                                                    !.end_time = NegativeEnd(wait, clock)]
                       ELSE [wait EXCEPT !.pc = "until_not_sleep", !.held = page[locator]]
    /\ UNCHANGED <<page, store, implicit, clock, last>>

\* WebDriverWait.until_not: the sleep, then the budget check
UntilNotSleep ==
    /\ wait.pc = "until_not_sleep"
    /\ clock < MaxClock
    /\ clock' = clock + 1
    /\ wait' = IF clock' > wait.end_time
                   THEN Finish(wait, "TimeoutException", "Timeout occurred while waiting")
                   ELSE [wait EXCEPT !.pc = "until_not"]
    /\ UNCHANGED <<page, store, implicit, last>>

\* Time passes while the call talks to the driver
Tick ==
    /\ Running
    /\ clock < MaxClock
    /\ clock' = clock + 1
    /\ UNCHANGED <<page, store, implicit, wait, last>>

\* The page changes while the call waits
PageChangeWaiting ==
    /\ Running
    /\ ElementChange
    /\ UNCHANGED <<store, implicit, clock, wait, last>>

----------------------------------------------------------------------------
(* Actions on the dialogs.  hist records, for the current page load, the     *)
(* messages the page passed to the replaced dialogs (sent), the messages the *)
(* test got back from get_next_* (got), the number of dialogs shown (n) and   *)
(* the answer the test armed for the next confirm and that no confirm used    *)
(* yet ("none" when there is none).                                          *)

NoHistory ==
    [n |-> 0, armed |-> "none",
     sentAlerts |-> <<>>, sentConfirms |-> <<>>, sentPrompts |-> <<>>,
     gotAlerts |-> <<>>, gotConfirms |-> <<>>, gotPrompts |-> <<>>]

QuietDialogs ==
    /\ is_active = TRUE
    /\ js = FreshPage
    /\ hist = NoHistory

InitDialogs ==
    /\ is_active \in BOOLEAN
    /\ js = FreshPage
    /\ hist = NoHistory
    /\ last = Idle

Returned(op, res) == [op |-> op, res |-> res, armed |-> hist.armed]

\* The browser loads a page: the window's variables are gone
PageLoad ==
    /\ js' = FreshPage
    /\ hist' = NoHistory
    /\ last' = Returned("load", Undefined)
    /\ UNCHANGED is_active

ReplaceDialogs ==
    /\ js' = replace_dialogs(is_active, js)
    /\ last' = Returned("replace_dialogs", Undefined)
    /\ UNCHANGED <<is_active, hist>>

\* The page calls window.alert: the replacement, or else the native dialog
PageAlert ==
    \E msg \in AlertMessages :
        /\ hist.n < MaxDialogs
        /\ IF js.defined
               THEN /\ js' = alert(js, msg).w
                    /\ hist' = [hist EXCEPT !.n = @ + 1, !.sentAlerts = Append(@, msg)]
                    /\ last' = Returned("alert", alert(js, msg).res)
               ELSE /\ js' = js
                    /\ hist' = [hist EXCEPT !.n = @ + 1]
                    /\ last' = Returned("native", Undefined)
        /\ UNCHANGED is_active

PageConfirm ==
    \E msg \in ConfirmMessages :
        /\ hist.n < MaxDialogs
        /\ IF js.defined
               THEN /\ js' = confirm(js, msg).w
                    /\ hist' = [hist EXCEPT !.n = @ + 1, !.armed = "none",
                                            !.sentConfirms = Append(@, msg)]
                    /\ last' = Returned("confirm", confirm(js, msg).res)
               ELSE /\ js' = js
                    /\ hist' = [hist EXCEPT !.n = @ + 1]
                    /\ last' = Returned("native", Undefined)
        /\ UNCHANGED is_active

PagePrompt ==
    \E msg \in PromptMessages :
        /\ hist.n < MaxDialogs
        /\ IF js.defined
               THEN /\ js' = prompt(js, msg, default).w
                    /\ hist' = [hist EXCEPT !.n = @ + 1,
                                            !.sentPrompts = Append(@, [msg |-> msg, def |-> default])]
                    /\ last' = Returned("prompt", prompt(js, msg, default).res)
               ELSE /\ js' = js
                    /\ hist' = [hist EXCEPT !.n = @ + 1]
                    /\ last' = Returned("native", Undefined)
        /\ UNCHANGED is_active

\* What a get_next_* call adds to the messages got: nothing for null or undefined
Got(seq, res) == IF res.kind = "string" THEN Append(seq, res.text) ELSE seq

GetNextAlert ==
    LET r == get_next_alert(js) IN
    /\ js' = r.w
    /\ hist' = [hist EXCEPT !.gotAlerts = Got(@, r.res)]
    /\ last' = Returned("get_next_alert", r.res)
    /\ UNCHANGED is_active

GetNextConfirm ==
    LET r == get_next_confirm(js) IN
    /\ js' = r.w
    /\ hist' = [hist EXCEPT !.gotConfirms = Got(@, r.res)]
    /\ last' = Returned("get_next_confirm", r.res)
    /\ UNCHANGED is_active

GetNextPrompt ==
    LET r == get_next_prompt(js) IN
    /\ js' = r.w
    /\ hist' = [hist EXCEPT !.gotPrompts = Got(@, r.res)]
    /\ last' = Returned("get_next_prompt", r.res)
    /\ UNCHANGED is_active

AnswerOnNextPrompt ==
    \E value \in PromptValues :
        /\ js' = answer_on_next_prompt(js, value)
        /\ last' = Returned("answer_on_next_prompt", Undefined)
        /\ UNCHANGED <<is_active, hist>>

\* The answer armed is written down from the documentation of the method:
\* '#ok' clicks OK, anything else Cancel
SetNextConfirmState ==
    \E value \in ConfirmValues :
        /\ js' = set_next_confirm_state(js, value)
        /\ hist' = [hist EXCEPT !.armed =
                        IF ~js.defined THEN @
                        ELSE IF value \in {ok, <<"#", "O", "k">>} THEN "true" ELSE "false"]
        /\ last' = Returned("set_next_confirm_state", Undefined)
        /\ UNCHANGED is_active

----------------------------------------------------------------------------
(* Specifications: one per helper, the rest of the state at rest *)

Init == InitDriver /\ QuietPage /\ QuietDialogs

Next ==
    \/ OpenWindow /\ UNCHANGED <<pageVars, dialogVars>>
    \/ Switch /\ UNCHANGED <<pageVars, dialogVars>>
    \/ Close /\ UNCHANGED <<pageVars, dialogVars>>
    \/ SwitchFrame /\ UNCHANGED <<pageVars, dialogVars>>

\* WindowManager and FrameManager on the driver's windows and frames
Spec == Init /\ [][Next]_vars

InitLoc == InitLocators /\ QuietDriver /\ QuietDialogs

NextLoc ==
    \/ PageChange /\ UNCHANGED <<driverVars, dialogVars>>
    \/ GetLocator /\ UNCHANGED <<driverVars, dialogVars>>

\* Manager.get_locator on a page
SpecLocator == InitLoc /\ [][NextLoc]_vars

InitW == InitWait /\ QuietDriver /\ QuietDialogs

NextWait ==
    \/ WaitFor /\ UNCHANGED <<driverVars, dialogVars>>
    \/ Locate /\ UNCHANGED <<driverVars, dialogVars>>
    \/ Until /\ UNCHANGED <<driverVars, dialogVars>>
    \/ UntilSleep /\ UNCHANGED <<driverVars, dialogVars>>
    \/ UntilNot /\ UNCHANGED <<driverVars, dialogVars>>
    \/ UntilNotSleep /\ UNCHANGED <<driverVars, dialogVars>>
    \/ Tick /\ UNCHANGED <<driverVars, dialogVars>>
    \/ PageChangeWaiting /\ UNCHANGED <<driverVars, dialogVars>>

\* One call of WaitForManager.wait_for on a changing page
SpecWait == InitW /\ [][NextWait]_vars

InitDlg == InitDialogs /\ QuietDriver /\ QuietPage

NextDlg ==
    \/ PageLoad /\ UNCHANGED <<driverVars, pageVars>>
    \/ ReplaceDialogs /\ UNCHANGED <<driverVars, pageVars>>
    \/ PageAlert /\ UNCHANGED <<driverVars, pageVars>>
    \/ PageConfirm /\ UNCHANGED <<driverVars, pageVars>>
    \/ PagePrompt /\ UNCHANGED <<driverVars, pageVars>>
    \/ GetNextAlert /\ UNCHANGED <<driverVars, pageVars>>
    \/ GetNextConfirm /\ UNCHANGED <<driverVars, pageVars>>
    \/ GetNextPrompt /\ UNCHANGED <<driverVars, pageVars>>
    \/ AnswerOnNextPrompt /\ UNCHANGED <<driverVars, pageVars>>
    \/ SetNextConfirmState /\ UNCHANGED <<driverVars, pageVars>>

\* DialogsManager and the page's dialogs
SpecDialogs == InitDlg /\ [][NextDlg]_vars

----------------------------------------------------------------------------
(* Claims about Manager.get_locator, under SpecLocator *)

\* The (strategy, value) pair get_locator returns for a locator
Pair(locator) == <<BYS[lower(locator.type)], locator.value>>

\* Whether the driver finds at least one element for the locator
Matches(locator) == page[Pair(locator)] # "absent"

MatchingPositions(locators) == {i \in 1..Len(locators) : Matches(locators[i])}

Earliest(positions) == CHOOSE i \in positions : \A j \in positions : i <= j

\* C1: get_locator is first-match-wins: when at least one locator of a non-empty
\* list matches an element, the call returns the pair of the earliest matching
\* locator, and find_elements was asked for the locators up to that one and no
\* later one.
C1_FirstMatchWins ==
    (last.op = "get_locator" /\ MatchingPositions(last.locators) # {}) =>
        LET k == Earliest(MatchingPositions(last.locators)) IN
        /\ last.err = "none"
        /\ last.val = Pair(last.locators[k])
        /\ last.asked = [i \in 1..k |-> Pair(last.locators[i])]

\* A call that skipped a first locator without a match and returned the second
C1_Witness ==
    /\ last.op = "get_locator"
    /\ Len(last.locators) = 2
    /\ ~Matches(last.locators[1])
    /\ Matches(last.locators[2])
    /\ last.val = Pair(last.locators[2])

\* C2: when no locator of the list matches an element, get_locator returns the
\* first locator of the list.
C2_ReturnsFirstWhenNoneValid ==
    (last.op = "get_locator" /\ Len(last.locators) > 0
        /\ MatchingPositions(last.locators) = {}) =>
        /\ last.err = "none"
        /\ last.val = Pair(last.locators[1])

----------------------------------------------------------------------------
(* Claims about WindowManager and FrameManager, under Spec *)

\* C3: a failing call fails with a "not found" error or a "timeout" error,
\* never with another kind of error.
C3_TwoErrorKinds ==
    last.err \in {"none", "NoSuchWindowException", "NoSuchFrameException",
                  "NoSuchElementException", "TimeoutException"}

\* The symbolic names of the sequential mode that are bound lazily
SequentialNames ==
    {n \in WindowNames : startswith(n, win_ser_prefix) /\ n # win_ser_local}

C7_SwitchByIndex ==
    (last.op = "switch" /\ isdigit(last.arg)) =>
        LET i == int(last.arg).val IN
        IF i < Len(last.pre)
            THEN last.err = "none" /\ current = last.pre[i + 1]
            ELSE last.err = "NoSuchWindowException" /\ last.msg = "Invalid Window ID"

----------------------------------------------------------------------------
(* Claims about WaitForManager.wait_for, under SpecWait *)

\* What a condition, or the condition a negative one negates, asks of an element
ConditionHolds(condition, element) ==
    IF condition \in {present, notpresent} THEN element # "absent"
    ELSE IF condition \in {visible, notvisible} THEN element \in {"visible", "clickable"}
    ELSE element = "clickable"

\* C8: a positive wait_for returns normally only after the condition was seen to
\* hold for a locator get_locator resolved from the list, and otherwise ends by
\* raising the timeout error NoSuchElementException once the elapsed time
\* exceeds wait_timeout.
C8_PositiveWait ==
    (wait.pc = "done" /\ wait.kind = "positive") =>
        \/ /\ wait.err = "none"
           /\ wait.locator \in {Pair(wait.locators[i]) : i \in 1..Len(wait.locators)}
           /\ Len(wait.seen) = 1
           /\ ConditionHolds(wait.condition, wait.seen[1])
        \/ /\ wait.err = "NoSuchElementException"
           /\ wait.msg = "Timeout occurred while waiting"
           /\ clock - wait.start_time > wait.wait_timeout

\* The pairs of the locators that matched an element when the call began
RECURSIVE MatchedPairs(_, _, _)
MatchedPairs(locators, matched, i) ==
    IF i > Len(locators) THEN <<>>
    ELSE (IF matched[i] THEN <<Pair(locators[i])>> ELSE <<>>)
             \o MatchedPairs(locators, matched, i + 1)

\* C9: a negative wait_for returns at once, without waiting, when no locator
\* matched an element at call time; otherwise it waits for the locators that
\* matched, within the one budget wait_timeout, returns normally only when the
\* positive condition was seen not to hold for each of them, and raises
\* TimeoutException when one still satisfied it as the budget ran out.
C9_NegativeWait ==
    (wait.pc # "idle" /\ wait.kind = "negative") =>
        /\ wait.present_locs = MatchedPairs(wait.locators, wait.matched, 1)
        /\ (\A i \in 1..Len(wait.locators) : ~wait.matched[i]) =>
               wait.pc = "done" /\ wait.err = "none" /\ clock = wait.called
        /\ Running => wait.end_time = wait.start_time + wait.wait_timeout
        /\ (wait.pc = "done" /\ wait.err = "none") =>
               /\ Len(wait.seen) = Len(wait.present_locs)
               /\ \A i \in 1..Len(wait.seen) : ~ConditionHolds(wait.condition, wait.seen[i])
        /\ (wait.pc = "done" /\ wait.err # "none") =>
               /\ wait.err = "TimeoutException"
               /\ ConditionHolds(wait.condition, wait.held)
               /\ clock > wait.start_time + wait.wait_timeout

\* A negative wait that waited and then let two locators go
C9_Witness ==
    /\ wait.pc = "done" /\ wait.kind = "negative" /\ wait.err = "none"
    /\ Len(wait.seen) = 2
    /\ clock > wait.called

----------------------------------------------------------------------------
(* Claims about DialogsManager, under SpecDialogs *)

IsPrefix(s, t) == Len(s) <= Len(t) /\ SubSeq(t, 1, Len(s)) = s

SpacedOut(msg) == [i \in 1..Len(msg) |-> IF msg[i] = "\n" THEN " " ELSE msg[i]]

\* A prompt as it is queued: the message, or the default when the message is empty
Shown(p) == IF p.msg = <<>> THEN p.def ELSE p.msg

C6_OneShotConfirm ==
    last.op = "confirm" =>
        last.res = IF last.armed = "false" THEN False ELSE True

\* A confirm answered Cancel as armed, after an earlier confirm of the same page
C6_Witness ==
    /\ last.op = "confirm"
    /\ last.armed = "false"
    /\ last.res = False
    /\ Len(hist.sentConfirms) >= 2

====
